---- MODULE Spec2Model ----
(***************************************************************************)
(* Request execution core of discord_bot_backup.py:                        *)
(*   CommandHandler.execute_with_error_handling  (the dispatcher)          *)
(*   AsyncTaskManager.run_task_with_timeout / run_sync_task (the executor) *)
(*   stock_analyze / market_review_command / help_command / about_command  *)
(*                                                                         *)
(* Every coroutine is cut at its awaits: one action is the synchronous     *)
(* code the event loop runs between two suspension points.  The blocking   *)
(* backend call runs on a worker thread (asyncio.to_thread) and is the     *)
(* only code that does not run on the event loop.                          *)
(*                                                                         *)
(* Environment:                                                            *)
(*  - a message send (followup.send, response.send_message) either        *)
(*    delivers the message or raises discord.HTTPException;                *)
(*  - the backend call returns a truthy or a falsy value, raises, or never *)
(*    ends;                                                                *)
(*  - the deadline of wait_for is a timer that may fire at any moment the  *)
(*    caller is waiting (time is not measured);                            *)
(*  - interaction.response.defer is taken to succeed (the transport's      *)
(*    acknowledgement lies outside the execution core);                    *)
(*  - a call handed to the thread pool starts at any later moment, or     *)
(*    never (no free worker).                                              *)
(* The dispatcher's entry (request id, "request opened" line) and the      *)
(* start of the action are two steps, so that the opened request is a      *)
(* state of its own; the code runs them without suspending in between.     *)
(***************************************************************************)
EXTENDS Integers, Sequences, FiniteSets, TLC

\* Number of command invocations handled concurrently by the bot.
NumReqs == 2

Reqs == 1..NumReqs

\* ------------------------------------------------------------------------
\* Program constants (seconds).
DEFAULT_TIMEOUT == 300
STOCK_ANALYSIS_TIMEOUT == 600
MARKET_REVIEW_TIMEOUT == 300

\* timeout=None is passed as 0 here; `timeout or self.default_timeout`.
EffectiveTimeout(t) == IF t = 0 THEN DEFAULT_TIMEOUT ELSE t

\* ------------------------------------------------------------------------
\* Exception classes.  An exception is [kind, detail]: its class and the
\* origin of the text str(e) would give.
NoExc == [kind |-> "none", detail |-> "none"]

\* Classes the blocking backend call may raise.  The last two stand for
\* classes that meet two of the dispatcher's tests at once: a ValueError
\* subclass named like an API error, and a class whose name holds both
\* "NetworkError" and "PermissionError".
WorkKinds ==
    {"ValueError", "TimeoutError", "TushareAPIError", "NetworkError",
     "PermissionError", "RuntimeError", "BadRequestAPIError",
     "PermissionErrorNetworkError"}

\* Class raised by a failed message send (discord.HTTPException).
SendFailureKind == "HTTPException"

\* Ancestors of a class (itself included): what `except C` matches.
Bases(k) ==
    CASE k = "ValueError"      -> {"ValueError", "Exception"}
      [] k = "TimeoutError"    -> {"TimeoutError", "Exception"}
      [] k = "PermissionError" -> {"PermissionError", "OSError", "Exception"}
      [] k = "BadRequestAPIError" ->
             {"BadRequestAPIError", "ValueError", "Exception"}
      [] OTHER                 -> {k, "Exception"}

\* type(e).__name__ cut into the words the dispatcher looks for.
TypeName(k) ==
    CASE k = "TushareAPIError" -> <<"Tushare", "APIError">>
      [] k = "BadRequestAPIError" -> <<"BadRequest", "APIError">>
      [] k = "PermissionErrorNetworkError" -> <<"PermissionError", "NetworkError">>
      [] OTHER                 -> <<k>>

\* `word in error_type`
NameContains(k, word) == \E i \in DOMAIN TypeName(k) : TypeName(k)[i] = word

\* ------------------------------------------------------------------------
\* Stock codes as sequences of characters.
Digits == {"0", "1", "2", "3", "4", "5", "6", "7", "8", "9"}
Whitespace == {" ", "\n"}

\* What the user may type as stock_code.
RawCodes ==
    { <<"6", "0", "0", "5", "1", "9">>,
      <<" ", "6", "0", "0", "5", "1", "9", "\n">>,
      <<"6", "0", "0", "5", "1">>,
      <<"6", "0", "0", "5", "1", "x">>,
      <<"6", "0", "0", "5", "1", "9", "0">> }

RECURSIVE LStrip(_)
LStrip(s) ==
    IF s # <<>> /\ Head(s) \in Whitespace THEN LStrip(Tail(s)) ELSE s

RECURSIVE RStrip(_)
RStrip(s) ==
    IF s # <<>> /\ s[Len(s)] \in Whitespace
    THEN RStrip(SubSeq(s, 1, Len(s) - 1))
    ELSE s

\* str.strip()
Strip(s) == RStrip(LStrip(s))

CodeLen == 6

\* Variant: the pattern checks the length only (r'^.{6}$').
ReMatchCodeAnyChars(s) == Len(s) = CodeLen

\* re.match(r'^\d{6}$', s): six digits, then the end of the string or one
\* final newline ($ also matches just before a trailing newline).
ReMatchCode(s) ==
    /\ Len(s) >= CodeLen
    /\ \A i \in 1..CodeLen : s[i] \in Digits
    /\ \/ Len(s) = CodeLen
       \/ Len(s) = CodeLen + 1 /\ s[CodeLen + 1] = "\n"

\* Variant: the result is not tested, any returned value counts.
TruthyAnyValue(v) == v \in {"report", "empty"}

\* ------------------------------------------------------------------------
\* Backend results.  "empty" is any falsy value (None, False, empty).
Results == {"report", "empty"}

Truthy(v) == v = "report"

Commands == {"stock_analyze", "market_review", "help", "about"}
DispatchedCommands == {"stock_analyze", "market_review"}

\* str(uuid.uuid4())[:8]: a random token; two samples of its range.
RequestIds == {"1f0c9a2e", "7b44d1c3"}


\* ------------------------------------------------------------------------
\* State.  Every variable is a function of the request (one invocation of a
\* command); the log and the messages are kept per request, in the order
\* the request emitted them.
VARIABLES
    cmd,        \* the command invoked, "none" before the invocation
    code,       \* stock_code after strip() (stock_analyze only)
    rid,        \* request_id assigned by the dispatcher
    pc,         \* position of the request's coroutine
    exc,        \* exception the action raised into the dispatcher
    result,     \* value the executor returned to the action
    ret,        \* value execute_with_error_handling returned
    msgs,       \* messages delivered to the user
    logs,       \* log lines emitted
    work,       \* the blocking backend call of the request
    cancelReq,  \* wait_for requested cancellation of the task
    overlapped  \* the request was invoked while another one's work ran

vars ==
    <<cmd, code, rid, pc, exc, result, ret, msgs, logs, work, cancelReq,
      overlapped>>

NoWork ==
    [state |-> "none", value |-> "none", kind |-> "none", on |-> "none",
     runs |-> 0]

Msg(text, detail) == [text |-> text, detail |-> detail]

LogLine(src, level, ev, id, timeout) ==
    [src |-> src, level |-> level, ev |-> ev, rid |-> id, timeout |-> timeout]

Init ==
    /\ cmd = [r \in Reqs |-> "none"]
    /\ code = [r \in Reqs |-> <<>>]
    /\ rid = [r \in Reqs |-> "none"]
    /\ pc = [r \in Reqs |-> "idle"]
    /\ exc = [r \in Reqs |-> NoExc]
    /\ result = [r \in Reqs |-> "none"]
    /\ ret = [r \in Reqs |-> "unset"]
    /\ msgs = [r \in Reqs |-> <<>>]
    /\ logs = [r \in Reqs |-> <<>>]
    /\ work = [r \in Reqs |-> NoWork]
    /\ cancelReq = [r \in Reqs |-> FALSE]
    /\ overlapped = [r \in Reqs |-> FALSE]

\* ------------------------------------------------------------------------
\* The event loop is one thread: its callbacks run only while no blocking
\* call occupies it.
LoopFree == \A q \in Reqs : ~(work[q].state = "running" /\ work[q].on = "loop")

WorkInFlight(q) == work[q].state = "running"

\* Variant: the wrapper calls sync_func(...) itself, on the event loop.
SubmitTargetLoop == "loop"

\* asyncio.to_thread(sync_func, ...): the call runs on a worker thread.
SubmitTarget == "thread"

\* A variant that looks at the class name before the ValueError test, and
\* for "PermissionError" before the API and network names.
ClassifyByNameFirst(e) ==
    IF NameContains(e.kind, "PermissionError") THEN "PermissionDenied"
    ELSE IF NameContains(e.kind, "APIError") \/ NameContains(e.kind, "NetworkError")
         THEN "TransientService"
    ELSE IF "ValueError" \in Bases(e.kind) THEN "InputError"
    ELSE IF "TimeoutError" \in Bases(e.kind) THEN "Timeout"
    ELSE "Unclassified"

\* ------------------------------------------------------------------------
\* Dispatcher: first matching except clause of execute_with_error_handling.
Classify(e) ==
    IF "ValueError" \in Bases(e.kind) THEN "InputError"
    ELSE IF "TimeoutError" \in Bases(e.kind) THEN "Timeout"
    ELSE IF NameContains(e.kind, "APIError") \/ NameContains(e.kind, "NetworkError")
         THEN "TransientService"
    ELSE IF NameContains(e.kind, "PermissionError") THEN "PermissionDenied"
    ELSE "Unclassified"

\* error_msg of the bucket; only the ValueError branch formats str(e) in.
BucketMessage(e) ==
    CASE Classify(e) = "InputError"       -> Msg("input_error", e.detail)
      [] Classify(e) = "Timeout"          -> Msg("timeout", "none")
      [] Classify(e) = "TransientService" -> Msg("transient", "none")
      [] Classify(e) = "PermissionDenied" -> Msg("permission", "none")
      [] OTHER                            -> Msg("unclassified", "none")

\* self.logger.error(...) of the bucket.
BucketLog(e, id) ==
    CASE Classify(e) = "InputError" -> LogLine("dispatcher", "error", "input_error", id, 0)
      [] Classify(e) = "Timeout"    -> LogLine("dispatcher", "error", "timeout", id, 0)
      [] OTHER                      -> LogLine("dispatcher", "error", "exception", id, 0)

\* Executor: the except clauses of run_task_with_timeout applied to the
\* exception that came out of `await asyncio.wait_for(task, ...)`.
RunTaskRaise(e) ==
    IF "TimeoutError" \in Bases(e.kind)
    THEN [kind |-> "Exception", detail |-> "executor"]
    ELSE e

RunTaskFailLog(e, t) ==
    IF "TimeoutError" \in Bases(e.kind)
    THEN LogLine("task", "error", "task_timeout", "none", t)
    ELSE LogLine("task", "error", "task_exception", "none", 0)

\* What wait_for raises when its timer fires first.
DeadlineExc == [kind |-> "TimeoutError", detail |-> "deadline"]

\* The timeout each command passes to run_sync_task.
TimeoutOf(c) ==
    IF c = "stock_analyze" THEN STOCK_ANALYSIS_TIMEOUT ELSE MARKET_REVIEW_TIMEOUT


\* ------------------------------------------------------------------------
\* Raising out of the action lands in an except clause of the dispatcher,
\* which starts sending the bucket's message.
RaiseToDispatcher(r, e) ==
    /\ pc' = [pc EXCEPT ![r] = "h_send"]
    /\ exc' = [exc EXCEPT ![r] = e]

OtherWorkRunning(r) == \E q \in Reqs \ {r} : WorkInFlight(q)

\* stock_analyze, up to the dispatcher call: defer the response, strip the
\* code.
StockAnalyze(r, raw) ==
    /\ LoopFree
    /\ pc[r] = "idle"
    /\ cmd' = [cmd EXCEPT ![r] = "stock_analyze"]
    /\ code' = [code EXCEPT ![r] = Strip(raw)]
    /\ pc' = [pc EXCEPT ![r] = "deferred"]
    /\ overlapped' = [overlapped EXCEPT ![r] = OtherWorkRunning(r)]
    /\ UNCHANGED <<rid, exc, result, ret, msgs, logs, work, cancelReq>>

\* market_review_command, up to the dispatcher call.
MarketReviewCommand(r) ==
    /\ LoopFree
    /\ pc[r] = "idle"
    /\ cmd' = [cmd EXCEPT ![r] = "market_review"]
    /\ pc' = [pc EXCEPT ![r] = "deferred"]
    /\ overlapped' = [overlapped EXCEPT ![r] = OtherWorkRunning(r)]
    /\ UNCHANGED <<code, rid, exc, result, ret, msgs, logs, work, cancelReq>>

\* Variant: the "request opened" line is not written.
DispatchOpenNoLog(r, id) ==
    /\ LoopFree
    /\ pc[r] = "deferred"
    /\ rid' = [rid EXCEPT ![r] = id]
    /\ pc' = [pc EXCEPT ![r] = "opened"]
    /\ UNCHANGED <<cmd, code, exc, result, ret, msgs, logs, work, cancelReq,
                   overlapped>>

\* execute_with_error_handling, entry: request id and the "request opened"
\* log line.
DispatchOpen(r, id) ==
    /\ LoopFree
    /\ pc[r] = "deferred"
    /\ rid' = [rid EXCEPT ![r] = id]
    /\ logs' = [logs EXCEPT ![r] =
                  Append(@, LogLine("dispatcher", "info", "opened", id, 0))]
    /\ pc' = [pc EXCEPT ![r] = "opened"]
    /\ UNCHANGED <<cmd, code, exc, result, ret, msgs, work, cancelReq, overlapped>>

\* A variant whose analyze action validates the code before it sends the
\* progress message.
ActionStartValidatesFirst(r) ==
    /\ LoopFree
    /\ pc[r] = "opened"
    /\ IF cmd[r] = "stock_analyze" /\ ~ReMatchCode(code[r])
       THEN RaiseToDispatcher(r, [kind |-> "ValueError", detail |-> "validation"])
       ELSE /\ pc' = [pc EXCEPT ![r] = "a_progress"]
            /\ exc' = exc
    /\ UNCHANGED <<cmd, code, rid, result, ret, msgs, logs, work, cancelReq,
                   overlapped>>

\* `await action(...)`: the action runs up to its first send.
ActionStart(r) ==
    /\ LoopFree
    /\ pc[r] = "opened"
    /\ pc' = [pc EXCEPT ![r] = "a_progress"]
    /\ UNCHANGED <<cmd, code, rid, exc, result, ret, msgs, logs, work, cancelReq,
                   overlapped>>

\* run_sync_task -> run_task_with_timeout, up to `await wait_for`: the start
\* log line, create_task(wrapper()), the call handed to the worker.
RunSyncTask(r, timeout) ==
    /\ logs' = [logs EXCEPT ![r] =
                  Append(@, LogLine("task", "info", "task_start", "none",
                                    EffectiveTimeout(timeout)))]
    /\ work' = [work EXCEPT ![r] = [NoWork EXCEPT !.state = "scheduled",
                                                !.runs = work[r].runs]]
    /\ pc' = [pc EXCEPT ![r] = "t_wait"]
    /\ exc' = exc

\* _execute_stock_analysis: validate, then run the analysis.
ExecuteStockAnalysis(r) ==
    IF ~ReMatchCode(code[r])
    THEN /\ RaiseToDispatcher(r, [kind |-> "ValueError", detail |-> "validation"])
         /\ UNCHANGED <<logs, work>>
    ELSE RunSyncTask(r, STOCK_ANALYSIS_TIMEOUT)

\* _execute_market_review.
ExecuteMarketReview(r) == RunSyncTask(r, MARKET_REVIEW_TIMEOUT)

\* The progress message was delivered; the action goes on to the backend.
ProgressSent(r) ==
    /\ LoopFree
    /\ pc[r] = "a_progress"
    /\ msgs' = [msgs EXCEPT ![r] = Append(@, Msg("progress", "none"))]
    /\ IF cmd[r] = "stock_analyze"
       THEN ExecuteStockAnalysis(r)
       ELSE ExecuteMarketReview(r)
    /\ UNCHANGED <<cmd, code, rid, result, ret, cancelReq, overlapped>>

\* followup.send of the progress message raised.
ProgressSendFailed(r) ==
    /\ LoopFree
    /\ pc[r] = "a_progress"
    /\ RaiseToDispatcher(r, [kind |-> SendFailureKind, detail |-> "transport"])
    /\ UNCHANGED <<cmd, code, rid, result, ret, msgs, logs, work, cancelReq,
                   overlapped>>

\* ------------------------------------------------------------------------
\* The worker: the blocking call starts, and may return, raise, or run on.
WorkStart(r) ==
    /\ work[r].state = "scheduled"
    /\ SubmitTarget = "loop" => LoopFree
    /\ work' = [work EXCEPT ![r].state = "running", ![r].on = SubmitTarget,
                            ![r].runs = @ + 1]
    /\ UNCHANGED <<cmd, code, rid, pc, exc, result, ret, msgs, logs, cancelReq,
                   overlapped>>

\* A variant in which the worker itself logs the call's success when the
\* call returns.
WorkReturnLogged(r, v) ==
    /\ work[r].state = "running"
    /\ work' = [work EXCEPT ![r].state = "returned", ![r].value = v]
    /\ logs' = [logs EXCEPT ![r] =
                  Append(@, LogLine("task", "info", "task_success", "none", 0))]
    /\ UNCHANGED <<cmd, code, rid, pc, exc, result, ret, msgs, cancelReq,
                   overlapped>>

WorkReturn(r, v) ==
    /\ work[r].state = "running"
    /\ work' = [work EXCEPT ![r].state = "returned", ![r].value = v]
    /\ UNCHANGED <<cmd, code, rid, pc, exc, result, ret, msgs, logs, cancelReq,
                   overlapped>>

WorkRaise(r, k) ==
    /\ work[r].state = "running"
    /\ work' = [work EXCEPT ![r].state = "raised", ![r].kind = k]
    /\ UNCHANGED <<cmd, code, rid, pc, exc, result, ret, msgs, logs, cancelReq,
                   overlapped>>

\* ------------------------------------------------------------------------
\* wait_for hands the call's result back: success log, result to the action,
\* which starts its final send.
TaskReturned(r) ==
    /\ LoopFree
    /\ pc[r] = "t_wait"
    /\ work[r].state = "returned"
    /\ logs' = [logs EXCEPT ![r] =
                  Append(@, LogLine("task", "info", "task_success", "none", 0))]
    /\ result' = [result EXCEPT ![r] = work[r].value]
    /\ pc' = [pc EXCEPT ![r] = "a_final"]
    /\ UNCHANGED <<cmd, code, rid, exc, ret, msgs, work, cancelReq, overlapped>>

\* A variant that submits the call again when it has failed.
TaskRaisedRetries(r) ==
    /\ LoopFree
    /\ pc[r] = "t_wait"
    /\ work[r].state = "raised"
    /\ work' = [work EXCEPT ![r] = [NoWork EXCEPT !.state = "scheduled",
                                                !.runs = work[r].runs]]
    /\ UNCHANGED <<cmd, code, rid, pc, exc, result, ret, msgs, logs, cancelReq,
                   overlapped>>

\* wait_for hands the call's exception back: the except clauses of
\* run_task_with_timeout log it and raise.
TaskRaised(r) ==
    /\ LoopFree
    /\ pc[r] = "t_wait"
    /\ work[r].state = "raised"
    /\ LET e == [kind |-> work[r].kind, detail |-> "backend"] IN
         /\ logs' = [logs EXCEPT ![r] =
                       Append(@, RunTaskFailLog(e, EffectiveTimeout(TimeoutOf(cmd[r]))))]
         /\ RaiseToDispatcher(r, RunTaskRaise(e))
    /\ UNCHANGED <<cmd, code, rid, result, ret, msgs, work, cancelReq, overlapped>>

\* The deadline timer fires first: wait_for cancels the task.  A call not
\* yet started is dropped; a started call cannot be interrupted.
DeadlineFires(r) ==
    /\ LoopFree
    /\ pc[r] = "t_wait"
    /\ cancelReq' = [cancelReq EXCEPT ![r] = TRUE]
    /\ work' = [work EXCEPT ![r].state =
                  IF @ = "scheduled" THEN "cancelled" ELSE @]
    /\ pc' = [pc EXCEPT ![r] = "t_cancel"]
    /\ UNCHANGED <<cmd, code, rid, exc, result, ret, msgs, logs, overlapped>>

\* Variant: after the deadline the executor joins the worker before it
\* raises.
TimeoutRaisedAfterJoin(r) ==
    /\ LoopFree
    /\ pc[r] = "t_cancel"
    /\ work[r].state # "running"
    /\ logs' = [logs EXCEPT ![r] =
                  Append(@, RunTaskFailLog(DeadlineExc,
                                           EffectiveTimeout(TimeoutOf(cmd[r]))))]
    /\ RaiseToDispatcher(r, RunTaskRaise(DeadlineExc))
    /\ UNCHANGED <<cmd, code, rid, result, ret, msgs, work, cancelReq, overlapped>>

\* The cancelled wrapper task ends; wait_for raises TimeoutError into
\* run_task_with_timeout, which logs and raises.
TimeoutRaised(r) ==
    /\ LoopFree
    /\ pc[r] = "t_cancel"
    /\ logs' = [logs EXCEPT ![r] =
                  Append(@, RunTaskFailLog(DeadlineExc,
                                           EffectiveTimeout(TimeoutOf(cmd[r]))))]
    /\ RaiseToDispatcher(r, RunTaskRaise(DeadlineExc))
    /\ UNCHANGED <<cmd, code, rid, result, ret, msgs, work, cancelReq, overlapped>>


\* ------------------------------------------------------------------------
\* The action's last message: the success message, or market review's own
\* failure message when the review result is falsy.
FinalMessage(c, v) ==
    IF c = "stock_analyze" THEN Msg("analyze_success", "none")
    ELSE IF Truthy(v) THEN Msg("review_success", "none")
    ELSE Msg("review_failed", "none")

\* bot.logger line that follows the last message.
FinalBotLog(c, v) ==
    IF c = "stock_analyze" THEN LogLine("bot", "info", "analysis_done", "none", 0)
    ELSE IF Truthy(v) THEN LogLine("bot", "info", "review_done", "none", 0)
    ELSE LogLine("bot", "error", "review_failed", "none", 0)

\* Variant: the action forgets `return result`, so the dispatcher returns
\* None on the success path.
FinalSentNoReturn(r) ==
    /\ LoopFree
    /\ pc[r] = "a_final"
    /\ msgs' = [msgs EXCEPT ![r] = Append(@, FinalMessage(cmd[r], result[r]))]
    /\ logs' = [logs EXCEPT ![r] =
                  @ \o << FinalBotLog(cmd[r], result[r]),
                          LogLine("dispatcher", "info", "succeeded", rid[r], 0) >>]
    /\ ret' = [ret EXCEPT ![r] = "None"]
    /\ pc' = [pc EXCEPT ![r] = "returned_result"]
    /\ UNCHANGED <<cmd, code, rid, exc, result, work, cancelReq, overlapped>>

\* The last message was delivered: the action logs and returns its result,
\* the dispatcher logs "command succeeded" and returns that result.
FinalSent(r) ==
    /\ LoopFree
    /\ pc[r] = "a_final"
    /\ msgs' = [msgs EXCEPT ![r] = Append(@, FinalMessage(cmd[r], result[r]))]
    /\ logs' = [logs EXCEPT ![r] =
                  @ \o << FinalBotLog(cmd[r], result[r]),
                          LogLine("dispatcher", "info", "succeeded", rid[r], 0) >>]
    /\ ret' = [ret EXCEPT ![r] = result[r]]
    /\ pc' = [pc EXCEPT ![r] = "returned_result"]
    /\ UNCHANGED <<cmd, code, rid, exc, result, work, cancelReq, overlapped>>

\* followup.send of the last message raised.
FinalSendFailed(r) ==
    /\ LoopFree
    /\ pc[r] = "a_final"
    /\ RaiseToDispatcher(r, [kind |-> SendFailureKind, detail |-> "transport"])
    /\ UNCHANGED <<cmd, code, rid, result, ret, msgs, logs, work, cancelReq,
                   overlapped>>

\* A variant whose except clause logs the failure and tells the user nothing.
HandlerSentNoMessage(r) ==
    /\ LoopFree
    /\ pc[r] = "h_send"
    /\ logs' = [logs EXCEPT ![r] = Append(@, BucketLog(exc[r], rid[r]))]
    /\ ret' = [ret EXCEPT ![r] = "None"]
    /\ pc' = [pc EXCEPT ![r] = "returned_none"]
    /\ UNCHANGED <<cmd, code, rid, exc, result, msgs, work, cancelReq, overlapped>>

\* The dispatcher's error message was delivered: error log, return None.
HandlerSent(r) ==
    /\ LoopFree
    /\ pc[r] = "h_send"
    /\ msgs' = [msgs EXCEPT ![r] = Append(@, BucketMessage(exc[r]))]
    /\ logs' = [logs EXCEPT ![r] = Append(@, BucketLog(exc[r], rid[r]))]
    /\ ret' = [ret EXCEPT ![r] = "None"]
    /\ pc' = [pc EXCEPT ![r] = "returned_none"]
    /\ UNCHANGED <<cmd, code, rid, exc, result, work, cancelReq, overlapped>>

\* followup.send inside the except clause raised: nothing catches it, the
\* send's exception leaves execute_with_error_handling (exc keeps the
\* exception that was being handled).
HandlerSendFailed(r) ==
    /\ LoopFree
    /\ pc[r] = "h_send"
    /\ pc' = [pc EXCEPT ![r] = "escaped"]
    /\ UNCHANGED <<cmd, code, rid, exc, result, ret, msgs, logs, work, cancelReq,
                   overlapped>>

\* ------------------------------------------------------------------------
\* help_command / about_command: build the static text, start
\* interaction.response.send_message.  No dispatcher, no executor.
HelpCommand(r) ==
    /\ LoopFree
    /\ pc[r] = "idle"
    /\ cmd' = [cmd EXCEPT ![r] = "help"]
    /\ pc' = [pc EXCEPT ![r] = "s_send"]
    /\ overlapped' = [overlapped EXCEPT ![r] = OtherWorkRunning(r)]
    /\ UNCHANGED <<code, rid, exc, result, ret, msgs, logs, work, cancelReq>>

AboutCommand(r) ==
    /\ LoopFree
    /\ pc[r] = "idle"
    /\ cmd' = [cmd EXCEPT ![r] = "about"]
    /\ pc' = [pc EXCEPT ![r] = "s_send"]
    /\ overlapped' = [overlapped EXCEPT ![r] = OtherWorkRunning(r)]
    /\ UNCHANGED <<code, rid, exc, result, ret, msgs, logs, work, cancelReq>>

StaticText(c) == IF c = "help" THEN "help_text" ELSE "about_text"

\* A variant whose text tells whether an analysis was running at the moment
\* of the invocation.
StaticSentWithStatus(r) ==
    /\ LoopFree
    /\ pc[r] = "s_send"
    /\ msgs' = [msgs EXCEPT ![r] =
                  Append(@, Msg(StaticText(cmd[r]),
                                IF overlapped[r] THEN "busy" ELSE "quiet"))]
    /\ logs' = [logs EXCEPT ![r] =
                  Append(@, LogLine("bot", "info", cmd[r], "none", 0))]
    /\ pc' = [pc EXCEPT ![r] = "static_done"]
    /\ UNCHANGED <<cmd, code, rid, exc, result, ret, work, cancelReq, overlapped>>

StaticSent(r) ==
    /\ LoopFree
    /\ pc[r] = "s_send"
    /\ msgs' = [msgs EXCEPT ![r] = Append(@, Msg(StaticText(cmd[r]), "none"))]
    /\ logs' = [logs EXCEPT ![r] =
                  Append(@, LogLine("bot", "info", cmd[r], "none", 0))]
    /\ pc' = [pc EXCEPT ![r] = "static_done"]
    /\ UNCHANGED <<cmd, code, rid, exc, result, ret, work, cancelReq, overlapped>>

StaticSendFailed(r) ==
    /\ LoopFree
    /\ pc[r] = "s_send"
    /\ exc' = [exc EXCEPT ![r] = [kind |-> SendFailureKind, detail |-> "transport"]]
    /\ pc' = [pc EXCEPT ![r] = "static_failed"]
    /\ UNCHANGED <<cmd, code, rid, result, ret, msgs, logs, work, cancelReq,
                   overlapped>>

\* ------------------------------------------------------------------------
\* Steps of request r that the event loop runs.
LoopStep(r) ==
    \/ \E raw \in RawCodes : StockAnalyze(r, raw)
    \/ MarketReviewCommand(r)
    \/ HelpCommand(r)
    \/ AboutCommand(r)
    \/ \E id \in RequestIds : DispatchOpen(r, id)
    \/ ActionStart(r)
    \/ ProgressSent(r)
    \/ ProgressSendFailed(r)
    \/ TaskReturned(r)
    \/ TaskRaised(r)
    \/ DeadlineFires(r)
    \/ TimeoutRaised(r)
    \/ FinalSent(r)
    \/ FinalSendFailed(r)
    \/ HandlerSent(r)
    \/ HandlerSendFailed(r)
    \/ StaticSent(r)
    \/ StaticSendFailed(r)

\* Steps of request r's blocking call.
WorkerStep(r) ==
    \/ WorkStart(r)
    \/ \E v \in Results : WorkReturn(r, v)
    \/ \E k \in WorkKinds : WorkRaise(r, k)

Next == \E r \in Reqs : LoopStep(r) \/ WorkerStep(r)

Spec == Init /\ [][Next]_vars

\* The event loop runs every callback that is ready, and a timer that is
\* due: with the loop never occupied by a blocking call, the deadline of a
\* waiting request and the end of a cancelled task are not postponed for
\* ever.  Nothing is assumed of the worker: a blocking call may never end.
FairSpec ==
    /\ Spec
    /\ \A r \in Reqs : WF_vars(DeadlineFires(r)) /\ WF_vars(TimeoutRaised(r))

\* ------------------------------------------------------------------------
Terminated(r) ==
    pc[r] \in {"returned_result", "returned_none", "escaped",
               "static_done", "static_failed"}

HasMsg(r, text) == \E i \in DOMAIN msgs[r] : msgs[r][i].text = text

HasLog(r, src, ev) ==
    \E i \in DOMAIN logs[r] : logs[r][i].src = src /\ logs[r][i].ev = ev

CountMsgs(r, texts) == Cardinality({i \in DOMAIN msgs[r] : msgs[r][i].text \in texts})

CountLogs(r, src, ev) ==
    Cardinality({i \in DOMAIN logs[r] : logs[r][i].src = src /\ logs[r][i].ev = ev})

\* ========================================================================
\* Properties
\* ========================================================================
FailureTexts ==
    {"input_error", "timeout", "transient", "permission", "unclassified",
     "review_failed"}
SuccessTexts == {"analyze_success", "review_success"}
FinalTexts == FailureTexts \cup SuccessTexts

Dispatched(r) == cmd[r] \in DispatchedCommands

\* The executor's own deadline expired for r's backend call.
DeadlineExpired(r) == cancelReq[r]

\* C1 (as claimed): a request whose backend call exceeded its timeout and
\* whose failure the dispatcher reported got the "timed out" message and the
\* dispatcher's timeout log line, not the unclassified message and log.
C1_TimeoutClassifiedAsTimeout ==
    \A r \in Reqs :
        (DeadlineExpired(r) /\ pc[r] = "returned_none") =>
            /\ HasMsg(r, "timeout")
            /\ HasLog(r, "dispatcher", "timeout")
            /\ ~HasMsg(r, "unclassified")
            /\ ~HasLog(r, "dispatcher", "exception")

\* C2 (as claimed): no failure leaves execute_with_error_handling; a
\* dispatched request ends by returning the action's result or None.
C2_NothingEscapes ==
    \A r \in Reqs :
        (Dispatched(r) /\ Terminated(r)) =>
            pc[r] \in {"returned_result", "returned_none"}

\* C3 (as claimed): a terminated analyze or market-review request has sent
\* exactly one final (success or failure) message.
C3_ExactlyOneFinalMessage ==
    \A r \in Reqs :
        (Dispatched(r) /\ Terminated(r)) => CountMsgs(r, FinalTexts) = 1

\* C4 (as claimed): a failure the backend call raised before the deadline
\* reaches the caller of run_sync_task with the same kind.
C4_WorkFailureKindKept ==
    \A r \in Reqs :
        (pc[r] = "h_send" /\ work[r].state = "raised" /\ ~DeadlineExpired(r)) =>
            exc[r].kind = work[r].kind


\* The identifier pattern of the command surface: exactly six digits.
SixDigits(s) == Len(s) = 6 /\ \A i \in 1..Len(s) : s[i] \in Digits

InvalidCode(r) == cmd[r] = "stock_analyze" /\ ~SixDigits(code[r])

BackendNeverInvoked(r) ==
    /\ work[r] = NoWork
    /\ ~HasLog(r, "task", "task_start")

\* C5 (as claimed): a request whose stripped identifier does not match
\* ^\d{6}$ never invokes the backend and, once terminated, has failed with
\* InputError.
C5_InvalidCodeFailsWithInputError ==
    \A r \in Reqs :
        InvalidCode(r) =>
            /\ BackendNeverInvoked(r)
            /\ Terminated(r) =>
                  /\ Classify(exc[r]) = "InputError"
                  /\ exc[r].detail = "validation"

\* C5 (amended): for an identifier that does not match ^\d{6}$ after
\* stripping, the backend is never invoked and no task is scheduled; once
\* the progress message has been sent the action has raised the validation
\* ValueError, which the dispatcher handles as InputError; if the progress
\* message could not be sent, the request fails with that send's failure.
C5_InvalidCodeNeverReachesBackend ==
    \A r \in Reqs :
        InvalidCode(r) =>
            /\ BackendNeverInvoked(r)
            /\ pc[r] \notin {"t_wait", "t_cancel", "a_final", "returned_result"}
            /\ HasMsg(r, "progress") =>
                  /\ pc[r] \in {"h_send", "returned_none", "escaped"}
                  /\ Classify(exc[r]) = "InputError"
                  /\ exc[r].detail = "validation"
                  /\ pc[r] = "returned_none" =>
                        msgs[r][Len(msgs[r])] = Msg("input_error", "validation")
            /\ (Terminated(r) /\ ~HasMsg(r, "progress")) =>
                  exc[r] = [kind |-> SendFailureKind, detail |-> "transport"]

\* C5 witness: an invalid identifier was rejected and reported as InputError.
C5_Witness ==
    \E r \in Reqs :
        /\ InvalidCode(r)
        /\ pc[r] = "returned_none"
        /\ HasMsg(r, "input_error")

\* The executor returned the backend's value before the deadline, and the
\* value counts as a success of the command.
BackendSucceeded(r) ==
    /\ Dispatched(r)
    /\ result[r] # "none"
    /\ cmd[r] = "market_review" => result[r] = "report"

SuccessReported(r) ==
    /\ pc[r] = "returned_result"
    /\ CountLogs(r, "dispatcher", "succeeded") = 1
    /\ logs[r][Len(logs[r])] = LogLine("dispatcher", "info", "succeeded", rid[r], 0)
    /\ CountMsgs(r, SuccessTexts) = 1
    /\ CountMsgs(r, FailureTexts) = 0
    /\ ret[r] = work[r].value
    /\ ret[r] = result[r]

\* C6 (as claimed): a terminated request whose backend call completed
\* successfully within its timeout has exactly one dispatcher "command
\* succeeded" log, exactly one success message, no failure message, and the
\* dispatcher returned the backend's result.
C6_BackendSuccessIsReported ==
    \A r \in Reqs :
        (BackendSucceeded(r) /\ Terminated(r)) => SuccessReported(r)

\* C6 (amended): the same, provided the send of the success message does
\* not fail; if that send fails, the request is handled as a failure: no
\* success message, no "command succeeded" log, no result returned.
C6_BackendSuccessIsReportedIfSent ==
    \A r \in Reqs :
        (BackendSucceeded(r) /\ Terminated(r)) =>
            IF exc[r] = NoExc
            THEN SuccessReported(r)
            ELSE /\ exc[r] = [kind |-> SendFailureKind, detail |-> "transport"]
                 /\ pc[r] \in {"returned_none", "escaped"}
                 /\ CountMsgs(r, SuccessTexts) = 0
                 /\ CountLogs(r, "dispatcher", "succeeded") = 0
                 /\ ret[r] \in {"None", "unset"}

\* C6 witness: a successful backend call reported as a success.
C6_Witness ==
    \E r \in Reqs :
        /\ BackendSucceeded(r)
        /\ pc[r] = "returned_result"
        /\ ret[r] = "report"

\* The market-review backend returned a falsy result before the deadline.
ReviewReturnedFalsy(r) ==
    /\ cmd[r] = "market_review"
    /\ result[r] = "empty"

ReviewFailureReported(r) ==
    /\ pc[r] = "returned_result"
    /\ CountMsgs(r, {"review_failed"}) = 1
    /\ CountMsgs(r, FinalTexts \ {"review_failed"}) = 0
    /\ HasLog(r, "bot", "review_failed")
    /\ \E i \in DOMAIN logs[r] :
          logs[r][i].ev = "review_failed" /\ logs[r][i].level = "error"

\* C7 (as claimed): a terminated market-review request whose backend
\* returned a falsy result sent the explicit market-review failure message,
\* never the unclassified one, logged an error, and nothing was raised out
\* of the action or the dispatcher.
C7_FalsyReviewIsExplicitFailure ==
    \A r \in Reqs :
        (ReviewReturnedFalsy(r) /\ Terminated(r)) => ReviewFailureReported(r)

\* C7 (amended): the same, provided the send of the explicit failure
\* message does not fail; if it fails, that send's exception is raised out
\* of the action and the explicit failure message is not delivered.
C7_FalsyReviewIsExplicitFailureIfSent ==
    \A r \in Reqs :
        (ReviewReturnedFalsy(r) /\ Terminated(r)) =>
            IF exc[r] = NoExc
            THEN ReviewFailureReported(r)
            ELSE /\ exc[r] = [kind |-> SendFailureKind, detail |-> "transport"]
                 /\ pc[r] \in {"returned_none", "escaped"}
                 /\ ~HasMsg(r, "review_failed")

\* C7 witness: a falsy review result answered with the explicit message.
C7_Witness ==
    \E r \in Reqs :
        /\ ReviewReturnedFalsy(r)
        /\ pc[r] = "returned_result"
        /\ HasMsg(r, "review_failed")


InExecutor(r) == pc[r] \in {"t_wait", "t_cancel"}

\* C8: every call of run_sync_task / run_task_with_timeout eventually
\* returns or raises to its caller, whether or not the blocking call ever
\* ends; when the deadline has fired, cancellation has been requested.
C8_CallerAlwaysReleased ==
    \A r \in Reqs :
        /\ [](InExecutor(r) => <>(~InExecutor(r)))
        /\ [](pc[r] = "t_cancel" => cancelReq[r])

\* C8 witness: the caller was released by the deadline while the blocking
\* call is still running on its worker.
C8_Witness ==
    \E r \in Reqs :
        /\ DeadlineExpired(r)
        /\ pc[r] \in {"h_send", "returned_none", "escaped"}
        /\ work[r].state = "running"

\* C9: while one request's blocking call is in flight, every other request
\* that has not terminated has an event-loop step it can take.
C9_LoopNotOccupiedByWork ==
    \A r \in Reqs : \A q \in Reqs \ {r} :
        (WorkInFlight(r) /\ ~Terminated(q)) => ENABLED LoopStep(q)

\* C9 witness: a second analyze request was invoked while the first
\* request's call was running, and ran to its successful end while that
\* call is still running.
C9_Witness ==
    \E r \in Reqs : \E q \in Reqs \ {r} :
        /\ WorkInFlight(r)
        /\ overlapped[q]
        /\ cmd[q] = "stock_analyze"
        /\ pc[q] = "returned_result"

\* The dispatcher's view of a request.
PhaseOf(p) ==
    CASE p = "opened" -> "Opened"
      [] p \in {"a_progress", "t_wait", "t_cancel", "a_final", "h_send"} -> "Running"
      [] p = "returned_result" -> "Succeeded"
      [] p \in {"returned_none", "escaped"} -> "Failed"
      [] OTHER -> "NotOpened"

PhaseEdges ==
    { <<"NotOpened", "Opened">>, <<"Opened", "Running">>,
      <<"Running", "Succeeded">>, <<"Running", "Failed">> }

DispatcherTexts ==
    {"input_error", "timeout", "transient", "permission", "unclassified"}

DispatcherTerminalLogs(r) ==
    {i \in DOMAIN logs[r] : logs[r][i].src = "dispatcher" /\ logs[r][i].ev # "opened"}

\* The log and the messages of r agree with its phase.
PhaseOrder(r) ==
    LET ph == PhaseOf(pc[r]) IN
    /\ (ph = "NotOpened" /\ pc[r] \in {"idle", "deferred"}) =>
          logs[r] = <<>> /\ msgs[r] = <<>>
    /\ ph # "NotOpened" =>
          /\ logs[r] # <<>>
          /\ logs[r][1] = LogLine("dispatcher", "info", "opened", rid[r], 0)
          /\ CountLogs(r, "dispatcher", "opened") = 1
    /\ ph = "Opened" => Len(logs[r]) = 1 /\ msgs[r] = <<>>
    /\ ph \in {"Opened", "Running"} =>
          /\ DispatcherTerminalLogs(r) = {}
          /\ CountMsgs(r, DispatcherTexts) = 0
    /\ ph = "Succeeded" =>
          /\ DispatcherTerminalLogs(r) = {Len(logs[r])}
          /\ logs[r][Len(logs[r])].ev = "succeeded"
          /\ CountMsgs(r, DispatcherTexts) = 0
    /\ pc[r] = "returned_none" =>
          /\ DispatcherTerminalLogs(r) = {Len(logs[r])}
          /\ logs[r][Len(logs[r])].level = "error"
          /\ CountMsgs(r, DispatcherTexts) = 1
          /\ msgs[r][Len(msgs[r])].text \in DispatcherTexts
    /\ pc[r] = "escaped" =>
          /\ DispatcherTerminalLogs(r) = {}
          /\ CountMsgs(r, DispatcherTexts) = 0

\* A step changes r's phase along an edge of the state machine only, and
\* changes nothing of a request in a terminal phase.
PhaseStep(r) ==
    /\ \/ PhaseOf(pc'[r]) = PhaseOf(pc[r])
       \/ <<PhaseOf(pc[r]), PhaseOf(pc'[r])>> \in PhaseEdges
    /\ PhaseOf(pc[r]) \in {"Succeeded", "Failed"} =>
          /\ pc'[r] = pc[r]
          /\ logs'[r] = logs[r]
          /\ msgs'[r] = msgs[r]
          /\ ret'[r] = ret[r]
          /\ rid'[r] = rid[r]

\* C10: each request follows Opened -> Running -> {Succeeded | Failed}; the
\* "request opened" line is first, the action's output comes next, the
\* dispatcher's terminal message and log come last; a request in a terminal
\* phase takes no further transition and emits no further log or message.
C10_RequestStateMachine ==
    /\ [](\A r \in Reqs : PhaseOrder(r))
    /\ [][\A r \in Reqs : PhaseStep(r)]_vars

\* C10 witness: a request failed by its deadline is terminal, and its
\* abandoned call has ended since.
C10_Witness ==
    \E r \in Reqs :
        /\ pc[r] = "returned_none"
        /\ DeadlineExpired(r)
        /\ work[r].state \in {"returned", "raised"}

\* The requester of invocation r (interaction.user): each invocation of the
\* model comes from its own requester.
UserOf(r) == r

\* Where invocation r came from (guild_info): a guild, or a private message
\* when interaction.guild is None.
OriginOf(r) == IF r % 2 = 1 THEN "guild" ELSE "private_message"

\* The fields of the request that the dispatcher's log lines of invocation r
\* are formatted from: user_info, guild_info and command_name are locals of
\* r's own execute_with_error_handling call.
RequestFields(r) ==
    [user |-> UserOf(r), origin |-> OriginOf(r), command |-> cmd[r]]

\* The dispatcher's log as one stream: each line with the request id it
\* carries and the request fields it was formatted from.
DispatcherLog ==
    UNION {{[rid |-> logs[r][i].rid, ev |-> logs[r][i].ev,
             fields |-> RequestFields(r)] :
                i \in {j \in DOMAIN logs[r] : logs[r][j].src = "dispatcher"}} :
           r \in Reqs}

\* r is inside execute_with_error_handling: its id is assigned and it has
\* not returned yet.
InFlight(r) ==
    pc[r] \in {"opened", "a_progress", "t_wait", "t_cancel", "a_final", "h_send"}

\* C11 (as claimed): two requests of different requesters that are in
\* flight at the same time carry distinct request ids, and all dispatcher
\* log lines carrying one request id are formatted from the fields (user,
\* origin, command) of one request.
C11_DistinctIdsUnmixedLogs ==
    /\ \A r, q \in Reqs :
          (r # q /\ UserOf(r) # UserOf(q) /\ InFlight(r) /\ InFlight(q)) =>
              rid[r] # rid[q]
    /\ \A l1, l2 \in DispatcherLog :
          l1.rid = l2.rid => l1.fields = l2.fields

\* C12 (as claimed): a user message carries the detail text of a failure
\* only if it is the input-error message of a failed validation of the
\* user's arguments; the detail of a failure raised by the backend work is
\* never sent.
C12_OnlyValidationDetailShown ==
    \A r \in Reqs : \A i \in DOMAIN msgs[r] :
        /\ msgs[r][i].detail # "none" =>
              /\ msgs[r][i].text = "input_error"
              /\ msgs[r][i].detail = "validation"
        /\ msgs[r][i].text = "input_error" =>
              /\ InvalidCode(r)
              /\ BackendNeverInvoked(r)

\* C13: within one request the backend call is submitted at most once and
\* started at most once; a call that has started, ended or been dropped is
\* never submitted or started again, whether it failed, timed out or
\* returned.
C13_WorkStartedAtMostOnce ==
    /\ [](\A r \in Reqs :
             /\ work[r].runs <= 1
             /\ CountLogs(r, "task", "task_start") <= 1
             /\ work[r].runs = 1 <=>
                   work[r].state \in {"running", "returned", "raised"})
    /\ [][\A r \in Reqs :
             work[r].state \in {"running", "returned", "raised", "cancelled"} =>
                 /\ work'[r].state # "scheduled"
                 /\ work'[r].state = "running" => work[r].state = "running"]_vars

\* C13 witness: requests that ended after their call had failed, and after
\* their call had timed out, with the call started once.
C13_Witness ==
    \E r, q \in Reqs :
        /\ Terminated(r) /\ work[r].state = "raised" /\ ~DeadlineExpired(r)
        /\ Terminated(q) /\ DeadlineExpired(q) /\ work[q].runs = 1

\* r's run_task_with_timeout call has been made and has ended.
CallEnded(r) ==
    /\ HasLog(r, "task", "task_start")
    /\ pc[r] \notin {"t_wait", "t_cancel"}

\* The number of outcome lines the executor has logged for r's call.
OutcomeLines(r) ==
    CountLogs(r, "task", "task_success") + CountLogs(r, "task", "task_timeout")
        + CountLogs(r, "task", "task_exception")

\* C14 (as claimed): a run_task_with_timeout call that has ended has logged
\* exactly one outcome line: the success line if the work completed, the
\* timeout line if the deadline elapsed, the failure line for any other
\* failure; a call still waiting has logged none.
C14_ExactlyOneOutcomeLine ==
    \A r \in Reqs :
        /\ pc[r] \in {"t_wait", "t_cancel"} => OutcomeLines(r) = 0
        /\ CallEnded(r) =>
              /\ OutcomeLines(r) = 1
              /\ DeadlineExpired(r) => HasLog(r, "task", "task_timeout")
              /\ (~DeadlineExpired(r) /\ work[r].state = "returned") =>
                    HasLog(r, "task", "task_success")
              /\ (~DeadlineExpired(r) /\ work[r].state = "raised") =>
                    HasLog(r, "task", "task_exception")

StaticCommands == Commands \ DispatchedCommands

RequestState(q) ==
    <<cmd[q], code[q], rid[q], pc[q], exc[q], result[q], ret[q], msgs[q],
      logs[q], work[q], cancelReq[q]>>

\* C16: a help or about invocation never submits backend work and logs no
\* executor line; the only message it sends is the static text of its
\* command, so any two invocations of the same command that have sent their
\* text have sent identical messages; and no step of a help or about
\* invocation changes anything of another request.
C16_StaticCommandsIdempotent ==
    /\ [](\A r \in Reqs :
             cmd[r] \in StaticCommands =>
                 /\ work[r] = NoWork
                 /\ \A i \in DOMAIN logs[r] : logs[r][i].src # "task"
                 /\ msgs[r] \in
                      {<<>>, <<Msg(IF cmd[r] = "help" THEN "help_text"
                                                      ELSE "about_text", "none")>>}
                 /\ pc[r] = "static_done" => msgs[r] # <<>>
                 /\ \A q \in Reqs :
                       (cmd[q] = cmd[r] /\ pc[q] = "static_done"
                           /\ pc[r] = "static_done") => msgs[q] = msgs[r])
    /\ [][\A r \in Reqs :
             (cmd'[r] \in StaticCommands /\ RequestState(r)' # RequestState(r)) =>
                 \A q \in Reqs \ {r} : RequestState(q)' = RequestState(q)]_vars

\* C16 witness: the same static command was invoked twice and both
\* invocations have sent their text.
C16_Witness ==
    \E r, q \in Reqs :
        /\ r # q
        /\ cmd[r] \in StaticCommands /\ cmd[q] = cmd[r]
        /\ pc[r] = "static_done" /\ pc[q] = "static_done"

\* The bucket of a failure kind by first match in the claimed order.
FirstMatchBucket(k) ==
    LET tests == <<"ValueError" \in Bases(k),
                   "TimeoutError" \in Bases(k),
                   NameContains(k, "APIError") \/ NameContains(k, "NetworkError"),
                   NameContains(k, "PermissionError"),
                   TRUE>>
        first == CHOOSE i \in 1..5 : tests[i] /\ \A j \in 1..(i - 1) : ~tests[j]
    IN <<"InputError", "Timeout", "TransientService", "PermissionDenied",
         "Unclassified">>[first]

\* The message text of each bucket.
BucketText(b) ==
    CASE b = "InputError"       -> "input_error"
      [] b = "Timeout"          -> "timeout"
      [] b = "TransientService" -> "transient"
      [] b = "PermissionDenied" -> "permission"
      [] b = "Unclassified"     -> "unclassified"

C18_SuccessLogExcludesFailureMessage ==
    \A r \in Reqs :
        ~(HasLog(r, "dispatcher", "succeeded") /\ CountMsgs(r, FailureTexts) > 0)

\* What request r has given back so far: return value, result handed to the
\* action, log lines, user messages, failure, position.
Output(r) == <<ret[r], result[r], logs[r], msgs[r], exc[r], pc[r]>>

\* C19: a call has one outcome.  If its deadline expired, no result was
\* handed back, no success was logged or reported, and once the timeout has
\* been raised a later end of the abandoned work (return or failure) changes
\* no return value, log line or message of the request.  If its result was
\* handed back, the deadline did not expire for it: no timeout log line and
\* no timeout failure.
C19_DeadlineRaceHasOneWinner ==
    /\ [](\A r \in Reqs :
             /\ ~(HasLog(r, "task", "task_success") /\ HasLog(r, "task", "task_timeout"))
             /\ DeadlineExpired(r) =>
                   /\ result[r] = "none"
                   /\ ret[r] \notin Results
                   /\ ~HasLog(r, "task", "task_success")
                   /\ CountMsgs(r, SuccessTexts \cup {"review_failed"}) = 0
                   /\ pc[r] \notin {"a_final", "returned_result"}
             /\ result[r] # "none" =>
                   /\ ~DeadlineExpired(r)
                   /\ HasLog(r, "task", "task_success")
                   /\ ~HasLog(r, "task", "task_timeout")
                   /\ exc[r].detail # "executor")
    /\ [][\A r \in Reqs :
             (DeadlineExpired(r) /\ pc[r] # "t_cancel" /\ work'[r] # work[r]) =>
                 Output(r)' = Output(r)]_vars

\* C19 witness: one request was failed by its deadline and its abandoned
\* work has returned a report; the other got its work's result back.
C19_Witness ==
    \E r, q \in Reqs :
        /\ DeadlineExpired(r) /\ Terminated(r)
        /\ work[r].state = "returned" /\ work[r].value = "report"
        /\ pc[q] = "returned_result" /\ ret[q] = "report"

\* C20 (as claimed): in an analyze request every terminal message comes
\* after the progress message, which is the request's first message.
C20_ProgressPrecedesTerminal ==
    \A r \in Reqs :
        cmd[r] = "stock_analyze" =>
            \A i \in DOMAIN msgs[r] :
                msgs[r][i].text \in FinalTexts =>
                    /\ i > 1
                    /\ msgs[r][1].text = "progress"

\* C20 (amended): in an analyze request the progress message is sent before
\* the code is validated and before the backend call is submitted.  When it
\* was delivered it is the first message, the terminal message is the
\* second, and so is every input-error message.  When its send raised,
\* neither validation nor backend was reached and the only message the
\* request can hold is the dispatcher's message for the failed send.
C20_ProgressFirstIfSent ==
    \A r \in Reqs :
        cmd[r] = "stock_analyze" =>
            /\ (work[r] # NoWork \/ HasLog(r, "task", "task_start")
                   \/ exc[r].detail = "validation") =>
                  /\ msgs[r] # <<>>
                  /\ msgs[r][1] = Msg("progress", "none")
            /\ \A i \in DOMAIN msgs[r] :
                  /\ msgs[r][i].text = "progress" => i = 1
                  /\ msgs[r][i].text = "input_error" =>
                        i = 2 /\ msgs[r][1].text = "progress"
                  /\ msgs[r][i].text \in FinalTexts =>
                        \/ i = 2 /\ msgs[r][1].text = "progress"
                        \/ /\ i = 1
                           /\ msgs[r] = <<Msg("unclassified", "none")>>
                           /\ exc[r] = [kind |-> SendFailureKind,
                                        detail |-> "transport"]
                           /\ BackendNeverInvoked(r)

\* C20 witness: an analyze request with an invalid code holds the progress
\* message and then the input-error message; one with a valid code holds the
\* progress message and then the success message.
C20_Witness ==
    \E r, q \in Reqs :
        /\ cmd[r] = "stock_analyze" /\ ~SixDigits(code[r])
        /\ msgs[r] = <<Msg("progress", "none"), Msg("input_error", "validation")>>
        /\ cmd[q] = "stock_analyze" /\ SixDigits(code[q])
        /\ msgs[q] = <<Msg("progress", "none"), Msg("analyze_success", "none")>>

====
